---- MODULE Spec2Model ----
(***************************************************************************)
(* Model of movie.py: an orbital camera fly-around.  The script computes   *)
(* a camera displacement in spherical coordinates, and for each of         *)
(* nframes frames converts it to Cartesian form, prints it, runs the       *)
(* raytracer with its standard output captured in a .ppm file, runs        *)
(* convert to make a .png of it, removes the .ppm and adds step_grad       *)
(* degrees to the polar angle.                                             *)
(*                                                                         *)
(* Numbers.  Python's int is exact; Python's float is modelled as a        *)
(* fixed-point number with Scale units per 1.0.  A number is a record      *)
(* [k |-> "int" or "float", v |-> integer]; arithmetic follows Python's    *)
(* rule that an operation on two ints is an int and any other is a float.  *)
(***************************************************************************)
EXTENDS Integers, Sequences, FiniteSets, TLC

Scale == 10^4

I(n) == [k |-> "int", v |-> n]
F(m) == [k |-> "float", v |-> m]
IsInt(a) == a.k = "int"
ToF(a) == IF IsInt(a) THEN a.v * Scale ELSE a.v

Abs(n) == IF n < 0 THEN -n ELSE n
Sgn(n) == IF n < 0 THEN -1 ELSE 1

\* In the operators below an argument that is used more than once is first
\* bound by a set constructor ({e(x) : x \in {a}}), so that TLC evaluates it
\* once, also inside ENABLED; the value is that of e(a).

\* a*b/Scale on scaled integers, the larger factor split so no product overflows
MulS(a, b) ==
    LET Product(x, y) ==
            LET hi == IF Abs(x) >= Abs(y) THEN Abs(x) ELSE Abs(y)
                lo == IF Abs(x) >= Abs(y) THEN Abs(y) ELSE Abs(x)
            IN  Sgn(x) * Sgn(y)
                  * ((hi \div Scale) * lo + ((hi % Scale) * lo) \div Scale)
    IN  CHOOSE p \in {Product(x, y) : x \in {a}, y \in {b}} : TRUE

\* the first n decimal digits of r/b (0 <= r < b), as an integer
RECURSIVE FracDigits(_, _, _)
FracDigits(r, b, n) ==
    IF n = 0 THEN 0
    ELSE CHOOSE q \in {((x * 10) \div y) * 10^(n - 1) + FracDigits((x * 10) % y, y, n - 1) :
                          x \in {r}, y \in {b}} : TRUE

\* a*Scale/b on scaled integers (b # 0), by long division
DivS(a, b) ==
    LET Quotient(x, y) ==
            Sgn(x) * Sgn(y)
              * ((Abs(x) \div Abs(y)) * Scale + FracDigits(Abs(x) % Abs(y), Abs(y), 4))
    IN  CHOOSE q \in {Quotient(x, y) : x \in {a}, y \in {b}} : TRUE

\* Python's + - * on numbers
Plus(a, b) == IF IsInt(a) /\ IsInt(b) THEN I(a.v + b.v) ELSE F(ToF(a) + ToF(b))
Neg(a) == [a EXCEPT !.v = -a.v]
Times(a, b) == IF IsInt(a) /\ IsInt(b) THEN I(a.v * b.v) ELSE F(MulS(ToF(a), ToF(b)))
Over(a, b) == F(DivS(ToF(a), ToF(b)))

\* the largest R in lo..hi with R*R <= n
RECURSIVE ISqrtIn(_, _, _)
ISqrtIn(n, lo, hi) ==
    LET Search(l, h) ==
            IF l >= h THEN l
            ELSE CHOOSE R \in {IF mid * mid <= n THEN ISqrtIn(n, mid, h)
                                                 ELSE ISqrtIn(n, l, mid - 1) :
                                  mid \in {(l + h + 1) \div 2}} : TRUE
    IN  CHOOSE R \in {Search(l, h) : l \in {lo}, h \in {hi}} : TRUE

ISqrt(n) == ISqrtIn(n, 0, IF n < 46340 THEN n ELSE 46340)

\* digit-by-digit square root: from root R and remainder M of n, two more
\* decimal digits of n (zeros) give one more digit of the root, k times
RECURSIVE SqrtDigits(_, _, _)
SqrtDigits(R, M, k) ==
    LET Digit(r, m) ==
            CHOOSE e \in 0..9 :
                /\ (20 * r + e) * e <= m * 100
                /\ \A g \in 0..9 : (20 * r + g) * g <= m * 100 => g <= e
    IN  IF k = 0 THEN R
        ELSE CHOOSE Q \in {SqrtDigits(10 * r + d, m * 100 - (20 * r + d) * d, k - 1) :
                              r \in {R}, m \in {M}, d \in {Digit(R, M)}} : TRUE

\* math.sqrt: floor(sqrt(a) * Scale), of an int or of a float
sqrt(a) ==
    LET Root(n, R) == SqrtDigits(R, n - R * R, IF IsInt(a) THEN 4 ELSE 2)
    IN  F(CHOOSE Q \in {Root(n, R) : n \in {a.v}, R \in {ISqrt(a.v)}} : TRUE)

\* math.pi and its fractions, scaled
PI == 31416
TwoPI == 2 * PI
HalfPI == PI \div 2
QuarterPI == PI \div 4

\* Taylor polynomials on scaled arguments, |x| <= pi/4
SinT(x) ==
    LET x2 == MulS(x, x)
        x3 == MulS(x2, x)
        x5 == MulS(x3, x2)
        x7 == MulS(x5, x2)
    IN  x - x3 \div 6 + x5 \div 120 - x7 \div 5040

CosT(x) ==
    LET x2 == MulS(x, x)
        x4 == MulS(x2, x2)
        x6 == MulS(x4, x2)
    IN  Scale - x2 \div 2 + x4 \div 24 - x6 \div 720

\* sine of y in [0, pi/2]
SinQ(y) == IF y <= QuarterPI THEN SinT(y) ELSE CosT(HalfPI - y)

\* sine of any scaled angle: reduce modulo 2 pi, then by quadrant
SinS(x) ==
    LET y == x % TwoPI
    IN  IF y <= HalfPI THEN SinQ(y)
        ELSE IF y <= PI THEN SinQ(PI - y)
        ELSE IF y <= PI + HalfPI THEN -SinQ(y - PI)
        ELSE -SinQ(TwoPI - y)

CosS(x) == SinS(x + HalfPI)

sin(a) == F(SinS(ToF(a)))
cos(a) == F(CosS(ToF(a)))

\* arctangent of a scaled t, |t| <= tan(pi/8)
AtanT(t) ==
    LET t2 == MulS(t, t)
        t3 == MulS(t2, t)
        t5 == MulS(t3, t2)
        t7 == MulS(t5, t2)
        t9 == MulS(t7, t2)
    IN  t - t3 \div 3 + t5 \div 5 - t7 \div 7 + t9 \div 9

\* arctangent of a scaled t in [0, 1]
AtanU(t) ==
    IF t <= 4142 THEN AtanT(t)
    ELSE QuarterPI - AtanT(DivS(Scale - t, Scale + t))

\* math.atan2 on scaled integers: the angle of the point (x, y), in (-pi, pi]
Atan2S(y, x) ==
    IF x = 0 /\ y = 0 THEN 0
    ELSE LET ax == Abs(x)
             ay == Abs(y)
             base == IF ax >= ay THEN AtanU(DivS(ay, ax))
                     ELSE HalfPI - AtanU(DivS(ax, ay))
             ang == IF x < 0 THEN PI - base ELSE base
         IN  IF y < 0 THEN -ang ELSE ang

atan2(y, x) == F(Atan2S(ToF(y), ToF(x)))

\* ---------------------------------------------------------------- helpers

\* the decimal digits of a natural number, most significant first
RECURSIVE Digits(_)
Digits(n) == IF n < 10 THEN <<n>> ELSE Append(Digits(n \div 10), n % 10)

\* the digits of n padded with zeros on the left to at least w digits
RECURSIVE PadLeft(_, _)
PadLeft(ds, w) == IF Len(ds) >= w THEN ds ELSE PadLeft(<<0>> \o ds, w)

\* "{}".format(a): the decimal text of a number; a float keeps its point
Repr(a) ==
    [neg |-> a.v < 0,
     int |-> Digits(IF IsInt(a) THEN Abs(a.v) ELSE Abs(a.v) \div Scale),
     frac |-> IF IsInt(a) THEN <<>> ELSE PadLeft(Digits(Abs(a.v) % Scale), 4)]

ReprTuple(t) == [n \in DOMAIN t |-> Repr(t[n])]

\* FrameName without the index: every frame gets the name of frame 0
FrameNameFixed(n) == <<"_movie/frame", PadLeft(Digits(0), 4)>>

\* "_movie/frame{:04}".format(i)
FrameName(n) == <<"_movie/frame", PadLeft(Digits(n), 4)>>

\* polar_to_cart with the polar angle's sine and cosine exchanged
polar_to_cart_swapped(rthetaphi) ==
    LET r == rthetaphi[1]
        theta == rthetaphi[2]
        phi == rthetaphi[3]
        x == Times(Times(r, cos(phi)), cos(theta))
        y == Times(Times(r, sin(phi)), cos(theta))
        z == Times(r, sin(theta))
    IN  <<x, y, z>>

cart_to_polar(xyz) ==
    LET x == xyz[1]
        y == xyz[2]
        z == xyz[3]
        r == sqrt(Plus(Plus(Times(x, x), Times(y, y)), Times(z, z)))
        theta == atan2(sqrt(Plus(Times(x, x), Times(y, y))), z)
        phi == atan2(y, x)
    IN  <<r, theta, phi>>

\* add with the last sum taking the second component of its right operand
add_typo(a0b0c0, a1b1c1) ==
    <<Plus(a0b0c0[1], a1b1c1[1]), Plus(a0b0c0[2], a1b1c1[2]), Plus(a0b0c0[3], a1b1c1[2])>>

polar_to_cart(rthetaphi) ==
    LET r == rthetaphi[1]
        theta == rthetaphi[2]
        phi == rthetaphi[3]
        x == Times(Times(r, cos(phi)), sin(theta))
        y == Times(Times(r, sin(phi)), sin(theta))
        z == Times(r, cos(theta))
    IN  <<x, y, z>>

add(a0b0c0, a1b1c1) ==
    <<Plus(a0b0c0[1], a1b1c1[1]), Plus(a0b0c0[2], a1b1c1[2]), Plus(a0b0c0[3], a1b1c1[3])>>

minus(a0b0c0) == <<Neg(a0b0c0[1]), Neg(a0b0c0[2]), Neg(a0b0c0[3])>>

\* ---------------------------------------------------------------- constants

step_grad == F(Scale \div 2)
nframes == 10
image_width == 640
samples_per_pixel == 200

origin == <<I(278), I(278), I(400)>>
start == <<I(478), I(278), I(-600)>>
grad == Over(F(PI), I(180))

\* the exit statuses a child process may return: success, and a failure
ExitCodes == {0, 1}

\* ---------------------------------------------------------------- state

VARIABLES
    pc,        \* the statement about to run
    it,        \* the position of range(0, nframes)'s iterator
    i,         \* the loop variable; -1 before the first iteration
    delta,     \* line 60
    p_delta,   \* line 62, 70: (r, theta, phi)
    c_delta,   \* line 67
    lookat,    \* render_image's parameters, <<>> outside a call
    lookfrom,
    fn,        \* render_image's local fn
    f,         \* the file object: "none", "open" or "closed"
    result,    \* line 20: <<returncode>> once the raytracer has exited
    conv,      \* line 32: <<returncode>> of convert, a value the code drops
    running,   \* the child processes alive; subprocess.run waits for its child
    fs,        \* the files of _movie/: name -> content
    stdout,    \* what the script has printed
    exc,       \* <<exception>> once one has propagated out of the script
    calls,     \* history: the frame indices render_image was called with
    failed     \* history: <<k>>, k the first frame one of whose processes
               \* exited non-zero; <<>> while there is none

vars == <<pc, it, i, delta, p_delta, c_delta, lookat, lookfrom, fn, f, result,
          conv, running, fs, stdout, exc, calls, failed>>

hist == <<calls, failed>>

locals == <<lookat, lookfrom, fn, f, result, conv>>

ppm(name) == Append(name, ".ppm")
png(name) == Append(name, ".png")

Exists(path) == path \in DOMAIN fs

Write(files, path, content) == (path :> content) @@ files
Unlink(files, path) == [q \in DOMAIN files \ {path} |-> files[q]]

InitCommon ==
    /\ pc = "polar"
    /\ it = 0
    /\ i = -1
    /\ p_delta = <<>>
    /\ c_delta = <<>>
    /\ lookat = <<>>
    /\ lookfrom = <<>>
    /\ fn = <<>>
    /\ f = "none"
    /\ result = <<>>
    /\ conv = <<>>
    /\ running = <<>>
    /\ fs = <<>>
    /\ stdout = <<>>
    /\ exc = <<>>
    /\ calls = <<>>
    /\ failed = <<>>

\* lines 58-60
Init ==
    /\ delta = add(start, minus(origin))
    /\ InitCommon

\* ---------------------------------------------------------------- the script

\* line 62
CartToPolar ==
    /\ pc = "polar"
    /\ p_delta' = cart_to_polar(delta)
    /\ pc' = "for"
    /\ UNCHANGED <<it, i, delta, c_delta, locals, running, fs, stdout, exc>>
    /\ UNCHANGED hist

\* ForNext as range(0, nframes, 2) would have it
ForNextStepTwo ==
    /\ pc = "for"
    /\ IF it < nframes
       THEN /\ i' = it
            /\ it' = it + 2
            /\ pc' = "pose"
       ELSE /\ pc' = "done"
            /\ UNCHANGED <<i, it>>
    /\ UNCHANGED <<delta, p_delta, c_delta, locals, running, fs, stdout, exc>>
    /\ UNCHANGED hist

\* line 66: the next value of range(0, nframes), or the end of the loop
ForNext ==
    /\ pc = "for"
    /\ IF it < nframes
       THEN /\ i' = it
            /\ it' = it + 1
            /\ pc' = "pose"
       ELSE /\ pc' = "done"
            /\ UNCHANGED <<i, it>>
    /\ UNCHANGED <<delta, p_delta, c_delta, locals, running, fs, stdout, exc>>
    /\ UNCHANGED hist

\* Pose taking the state one step ahead, as if line 70 came before line 67
PoseAhead ==
    /\ pc = "pose"
    /\ c_delta' = polar_to_cart(add(p_delta, <<I(0), Times(step_grad, grad), I(0)>>))
    /\ pc' = "print"
    /\ UNCHANGED <<it, i, delta, p_delta, locals, running, fs, stdout, exc>>
    /\ UNCHANGED hist

\* line 67
Pose ==
    /\ pc = "pose"
    /\ c_delta' = polar_to_cart(p_delta)
    /\ pc' = "print"
    /\ UNCHANGED <<it, i, delta, p_delta, locals, running, fs, stdout, exc>>
    /\ UNCHANGED hist

\* PrintFrame printing the position passed to the raytracer, not c_delta
PrintFrameLookfrom ==
    /\ pc = "print"
    /\ stdout' = Append(stdout, [kind |-> "Frame", frame |-> Repr(I(i)),
                                 pos |-> ReprTuple(add(origin, c_delta))])
    /\ pc' = "call"
    /\ UNCHANGED <<it, i, delta, p_delta, c_delta, locals, running, fs, exc>>
    /\ UNCHANGED hist

\* line 68
PrintFrame ==
    /\ pc = "print"
    /\ stdout' = Append(stdout, [kind |-> "Frame", frame |-> Repr(I(i)),
                                 pos |-> ReprTuple(c_delta)])
    /\ pc' = "call"
    /\ UNCHANGED <<it, i, delta, p_delta, c_delta, locals, running, fs, exc>>
    /\ UNCHANGED hist

\* lines 69, 15-18: the call binds the parameters and names the file
CallRender ==
    /\ pc = "call"
    /\ lookat' = origin
    /\ lookfrom' = add(origin, c_delta)
    /\ fn' = FrameName(i)
    /\ f' = "none"
    /\ result' = <<>>
    /\ conv' = <<>>
    /\ pc' = "open"
    /\ UNCHANGED <<it, i, delta, p_delta, c_delta, running, fs, stdout, exc>>
    /\ calls' = Append(calls, i)
    /\ UNCHANGED failed

\* an exception nothing catches ends the script where it is
Raise(type, line) ==
    /\ exc' = <<[type |-> type, line |-> line, frame |-> i]>>
    /\ pc' = "raised"

\* line 19: open(fn + ".ppm", "w") creates or truncates the file, or fails
Open ==
    /\ pc = "open"
    /\ \/ /\ fs' = Write(fs, ppm(fn), "empty")
          /\ f' = "open"
          /\ pc' = "run"
          /\ UNCHANGED exc
       \/ /\ Raise("OSError", 19)
          /\ UNCHANGED <<fs, f>>
    /\ UNCHANGED <<it, i, delta, p_delta, c_delta, lookat, lookfrom, fn, result,
                   conv, running, stdout>>
    /\ UNCHANGED hist

\* RaytracerArgv with the two points exchanged
RaytracerArgvSwapped ==
    <<"./target/release/raytracer", "--world=final_scene", "--seed=42",
      "--aspect_ratio=1:1",
      <<"--image_width=", Repr(I(image_width))>>,
      <<"--samples_per_pixel=", Repr(I(samples_per_pixel))>>,
      <<"--lookat=", ReprTuple(lookfrom)>>,
      <<"--lookfrom=", ReprTuple(lookat)>>>>

\* the raytracer's command line, lines 21-28
RaytracerArgv ==
    <<"./target/release/raytracer", "--world=final_scene", "--seed=42",
      "--aspect_ratio=1:1",
      <<"--image_width=", Repr(I(image_width))>>,
      <<"--samples_per_pixel=", Repr(I(samples_per_pixel))>>,
      <<"--lookat=", ReprTuple(lookat)>>,
      <<"--lookfrom=", ReprTuple(lookfrom)>>>>

\* RaytracerStart that does not wait for the child, as subprocess.Popen would
RaytracerStartNoWait ==
    /\ pc = "run"
    /\ \/ /\ running' = Append(running, [argv |-> RaytracerArgv, out |-> ppm(fn)])
          /\ pc' = "close"
          /\ UNCHANGED exc
       \/ /\ Raise("FileNotFoundError", 20)
          /\ UNCHANGED running
    /\ UNCHANGED <<it, i, delta, p_delta, c_delta, locals, fs, stdout>>
    /\ UNCHANGED hist

\* lines 20-30: subprocess.run starts the raytracer, or fails to start it
RaytracerStart ==
    /\ pc = "run"
    /\ \/ /\ running' = Append(running, [argv |-> RaytracerArgv, out |-> ppm(fn)])
          /\ pc' = "wait_run"
          /\ UNCHANGED exc
       \/ /\ Raise("FileNotFoundError", 20)
          /\ UNCHANGED running
    /\ UNCHANGED <<it, i, delta, p_delta, c_delta, locals, fs, stdout>>
    /\ UNCHANGED hist

\* RaytracerExit as subprocess.run(..., timeout=t) would have it: the wait
\* may also end with the child killed and TimeoutExpired raised
RaytracerExitOrTimeout ==
    /\ pc = "wait_run"
    /\ \/ /\ \E rc \in ExitCodes :
                /\ result' = <<rc>>
                /\ failed' = IF rc = 0 \/ failed # <<>> THEN failed ELSE <<i>>
          /\ fs' = Write(fs, ppm(fn), "pixels")
          /\ pc' = "close"
          /\ UNCHANGED exc
       \/ /\ Raise("TimeoutExpired", 20)
          /\ UNCHANGED <<result, failed, fs>>
    /\ running' = <<>>
    /\ UNCHANGED <<it, i, delta, p_delta, c_delta, lookat, lookfrom, fn, f, conv,
                   stdout, calls>>

\* lines 20-30: the raytracer exits; what it wrote to its standard output is in
\* the file
RaytracerExit ==
    /\ pc = "wait_run"
    /\ \E rc \in ExitCodes :
          /\ result' = <<rc>>
          /\ failed' = IF rc = 0 \/ failed # <<>> THEN failed ELSE <<i>>
          /\ fs' = Write(fs, ppm(fn), "pixels")
    /\ running' = <<>>
    /\ pc' = "close"
    /\ UNCHANGED <<it, i, delta, p_delta, c_delta, lookat, lookfrom, fn, f, conv,
                   stdout, exc, calls>>

\* Close without the call of f.close(): the handle stays open
CloseSkipped ==
    /\ pc = "close"
    /\ pc' = "convert"
    /\ UNCHANGED <<it, i, delta, p_delta, c_delta, locals, running, fs, stdout, exc>>
    /\ UNCHANGED hist

\* line 31
Close ==
    /\ pc = "close"
    /\ f' = "closed"
    /\ pc' = "convert"
    /\ UNCHANGED <<it, i, delta, p_delta, c_delta, lookat, lookfrom, fn, result,
                   conv, running, fs, stdout, exc>>
    /\ UNCHANGED hist

\* line 32: subprocess.run starts convert, or fails to start it
ConvertStart ==
    /\ pc = "convert"
    /\ \/ /\ running' = Append(running, [argv |-> <<"convert", ppm(fn), png(fn)>>,
                                         out |-> <<>>])
          /\ pc' = "wait_convert"
          /\ UNCHANGED exc
       \/ /\ Raise("FileNotFoundError", 32)
          /\ UNCHANGED running
    /\ UNCHANGED <<it, i, delta, p_delta, c_delta, locals, fs, stdout>>
    /\ UNCHANGED hist

\* line 32: convert exits; on success the .png holds the image of the .ppm
ConvertExit ==
    /\ pc = "wait_convert"
    /\ \E rc \in ExitCodes :
          /\ conv' = <<rc>>
          /\ failed' = IF rc = 0 \/ failed # <<>> THEN failed ELSE <<i>>
          /\ fs' = IF rc = 0 /\ Exists(ppm(fn))
                   THEN Write(fs, png(fn), "image")
                   ELSE fs
    /\ running' = <<>>
    /\ pc' = "remove"
    /\ UNCHANGED <<it, i, delta, p_delta, c_delta, lookat, lookfrom, fn, f, result,
                   stdout, exc, calls>>

\* Remove without the call of os.remove
RemoveNothing ==
    /\ pc = "remove"
    /\ pc' = "advance"
    /\ UNCHANGED <<it, i, delta, p_delta, c_delta, locals, running, fs, stdout, exc>>
    /\ UNCHANGED hist

\* line 33: os.remove, then render_image returns
Remove ==
    /\ pc = "remove"
    /\ IF Exists(ppm(fn))
       THEN /\ fs' = Unlink(fs, ppm(fn))
            /\ pc' = "advance"
            /\ UNCHANGED exc
       ELSE /\ Raise("FileNotFoundError", 33)
            /\ UNCHANGED fs
    /\ UNCHANGED <<it, i, delta, p_delta, c_delta, locals, running, stdout>>
    /\ UNCHANGED hist

\* Advance stepping the orbit only after a frame whose processes both exited 0
AdvanceOnSuccess ==
    /\ pc = "advance"
    /\ p_delta' = IF result = <<0>> /\ conv = <<0>>
                  THEN add(p_delta, <<I(0), Times(step_grad, grad), I(0)>>)
                  ELSE p_delta
    /\ pc' = "for"
    /\ UNCHANGED <<it, i, delta, c_delta, locals, running, fs, stdout, exc>>
    /\ UNCHANGED hist

\* Advance with the step added to the azimuth, not to the polar angle
AdvanceAzimuth ==
    /\ pc = "advance"
    /\ p_delta' = add(p_delta, <<I(0), I(0), Times(step_grad, grad)>>)
    /\ pc' = "for"
    /\ UNCHANGED <<it, i, delta, c_delta, locals, running, fs, stdout, exc>>
    /\ UNCHANGED hist

\* line 70
Advance ==
    /\ pc = "advance"
    /\ p_delta' = add(p_delta, <<I(0), Times(step_grad, grad), I(0)>>)
    /\ pc' = "for"
    /\ UNCHANGED <<it, i, delta, c_delta, locals, running, fs, stdout, exc>>
    /\ UNCHANGED hist

Next ==
    \/ CartToPolar
    \/ ForNext
    \/ Pose
    \/ PrintFrame
    \/ CallRender
    \/ Open
    \/ RaytracerStart
    \/ RaytracerExit
    \/ Close
    \/ ConvertStart
    \/ ConvertExit
    \/ Remove
    \/ Advance

Spec == Init /\ [][Next]_vars

\* the script where the interpreter keeps running and every child process
\* that is waited for exits
SpecLive == Spec /\ WF_vars(Next)

\* ---------------------------------------------------------------- conversions

\* Bounds of the inputs of the conversion round trip
MaxCoord == 5
Magnitudes == {1, 200}

Vectors ==
    {<<I(m * x), I(m * y), I(m * z)>> :
        x \in -MaxCoord..MaxCoord, y \in -MaxCoord..MaxCoord,
        z \in -MaxCoord..MaxCoord, m \in Magnitudes}

\* the script from line 60 with any displacement, up to the first call of
\* render_image
InitConv ==
    /\ delta \in Vectors
    /\ InitCommon

NextConv ==
    \/ CartToPolar
    \/ ForNext
    \/ Pose
    \/ PrintFrame
    \/ CallRender

SpecConv == InitConv /\ [][NextConv]_vars

\* ---------------------------------------------------------------- properties

\* control is inside render_image (lines 19-33)
InRender == pc \in {"open", "run", "wait_run", "close", "convert", "wait_convert", "remove"}

\* the frame of the latest call of render_image
LastCall == calls[Len(calls)]

EngineFailed == result # <<>> /\ result[1] # 0
ConvertFailed == conv # <<>> /\ conv[1] # 0

\* an exception of the given type has left the script in frame k
Raised(type, k) == exc # <<>> /\ exc[1].type = type /\ exc[1].frame = k

\* C1: when the raytracer of a frame exits non-zero, convert is not run for
\* that frame, and once render_image is left a RenderEngineError for the frame
\* has been raised and the frame's .ppm is still on disk.
C1_EngineFailureFailsFrame ==
    EngineFailed =>
        /\ conv = <<>>
        /\ pc \notin {"wait_convert", "remove"}
        /\ ~InRender => /\ Raised("RenderEngineError", LastCall)
                        /\ Exists(ppm(fn))

\* C2: when the raytracer of a frame succeeded and convert exits non-zero, once
\* render_image is left a ConversionError for the frame has been raised and the
\* frame's .ppm is still on disk.
C2_ConversionFailureKeepsRaw ==
    (result = <<0>> /\ ConvertFailed /\ ~InRender) =>
        /\ Raised("ConversionError", LastCall)
        /\ Exists(ppm(fn))

\* C3: once a frame k has failed (k the first to fail), render_image is called for no frame after k
\* and no file of a frame after k exists.
C3_AbortStopsLaterFrames ==
    failed # <<>> => \A j \in (failed[1] + 1)..(nframes - 1) :
        /\ \A n \in DOMAIN calls : calls[n] # j
        /\ ~Exists(ppm(FrameName(j)))
        /\ ~Exists(png(FrameName(j)))

\* C4: render_image is called for the indices 0, 1, 2, ... in order, each once,
\* never for more than nframes of them, and for exactly nframes of them when
\* the loop has ended, whichever frames failed.
C4_ExactlyNFrames ==
    /\ Len(calls) <= nframes
    /\ \A n \in DOMAIN calls : calls[n] = n - 1
    /\ pc = "done" => Len(calls) = nframes

C4_Witness == pc = "done" /\ Len(calls) = nframes /\ failed # <<>>

\* the script has recorded a failure against frame k: a line of output that is
\* not a progress line, or an exception raised in that frame
Recorded(k) ==
    \/ \E n \in DOMAIN stdout : stdout[n].kind # "Frame" /\ stdout[n].frame = Repr(I(k))
    \/ exc # <<>> /\ exc[1].frame = k

\* C5: a frame one of whose processes exited non-zero (the first such frame)
\* has, once render_image is left, a failure recorded against its index.
C5_FailuresRecorded ==
    (failed # <<>> /\ (failed[1] # LastCall \/ ~InRender)) => Recorded(failed[1])

\* C6: the .ppm of a frame exists from its creation until the remove step,
\* which comes after convert has returned, and after render_image returns from
\* a frame whose raytracer and convert both succeeded the .ppm is gone and the
\* .png is there.
C6_RawRemovedAfterConversion ==
    /\ pc \in {"run", "wait_run", "close", "convert", "wait_convert", "remove"}
          => Exists(ppm(fn))
    /\ (pc = "advance" /\ result = <<0>> /\ conv = <<0>>)
          => ~Exists(ppm(fn)) /\ Exists(png(fn))

C6_Witness ==
    /\ pc = "advance"
    /\ result = <<0>>
    /\ conv = <<0>>
    /\ ~Exists(ppm(fn))
    /\ LastCall = 1

\* the state of line 62 and the step of line 70
InitialPolar == cart_to_polar(add(start, minus(origin)))
StepRad == Times(step_grad, grad)

\* the orbit state after k steps
PolarAfter(k) ==
    <<Plus(InitialPolar[1], I(0)),
      Plus(InitialPolar[2], Times(I(k), StepRad)),
      Plus(InitialPolar[3], I(0))>>

\* the number of times line 70 has run
Advances == IF pc \in {"for", "done"} THEN it ELSE i

\* C7: after k runs of line 70 the polar angle is the initial polar angle plus
\* k times step_grad * pi / 180, and the displacement line 67 computes for frame
\* i is the Cartesian form of the state after i steps.
C7_PolarAngleAfterKAdvances ==
    /\ pc # "polar" => p_delta[2] = PolarAfter(Advances)[2]
    /\ pc \in {"print", "call"} => c_delta = polar_to_cart(PolarAfter(i))

C7_Witness ==
    /\ pc = "done"
    /\ it = nframes
    /\ p_delta[2] = Plus(InitialPolar[2], Times(I(nframes), StepRad))
    /\ p_delta[2] # InitialPolar[2]

\* the --lookfrom argument of the running raytracer
LookfromArg == running[1].argv[8][2]

\* C8 as stated: when the raytracer of frame i is started, a progress line
\* with the index i and the lookfrom point passed to the raytracer has been
\* printed.
C8_ProgressCarriesLookfrom ==
    pc = "wait_run" =>
        \E n \in DOMAIN stdout :
            /\ stdout[n].frame = Repr(I(i))
            /\ stdout[n].pos = LookfromArg

\* C8 as amended: throughout render_image for frame i, so before the raytracer
\* is started, the last line printed is the progress line of frame i, one line
\* per call, and it carries the displacement c_delta; the lookfrom point passed
\* to the raytracer is origin + c_delta.
C8_ProgressCarriesDisplacement ==
    InRender =>
        /\ Len(stdout) = Len(calls)
        /\ stdout[Len(stdout)] = [kind |-> "Frame", frame |-> Repr(I(i)),
                                  pos |-> ReprTuple(c_delta)]
        /\ lookfrom = add(origin, c_delta)
        /\ pc = "wait_run" => LookfromArg = ReprTuple(lookfrom)

C8_Witness ==
    /\ pc = "wait_run"
    /\ i = 1
    /\ stdout[2].pos = ReprTuple(c_delta)
    /\ LookfromArg # stdout[2].pos

\* C9: render_image is never left with the file object still open.
C9_HandleReleased == ~InRender => f # "open"

\* two numbers differ by at most tol units of 1/Scale
Near(a, b, tol) == Abs(ToF(a) - ToF(b)) <= tol

\* the tolerance of the round trip: a thousandth of the radius, and five units
Tolerance(r) == r.v \div 1000 + 5

Zero == <<I(0), I(0), I(0)>>

\* C10: for every non-zero displacement, polar_to_cart(cart_to_polar(delta))
\* is delta within the tolerance, and the lookfrom point of frame 0 is
\* origin + delta within the tolerance.
C10_RoundTrip ==
    (delta # Zero /\ pc \in {"print", "call", "open"}) =>
        /\ \A k \in 1..3 : Near(c_delta[k], delta[k], Tolerance(p_delta[1]))
        /\ pc = "open" =>
              \A k \in 1..3 :
                  Near(lookfrom[k], add(origin, delta)[k], Tolerance(p_delta[1]))

C10_Witness ==
    /\ pc = "open"
    /\ delta = add(start, minus(origin))
    /\ c_delta = polar_to_cart(cart_to_polar(delta))
    /\ lookfrom = add(origin, c_delta)

\* C11: line 70 runs after every frame that returns, whatever its processes'
\* exit statuses, so during the call of render_image for frame i the orbit
\* state is the state after i steps and the lookfrom point is origin plus its
\* Cartesian form, also when an earlier frame has failed.
C11_StateAdvancesWhateverOutcome ==
    /\ InRender =>
          /\ p_delta = PolarAfter(LastCall)
          /\ lookfrom = add(origin, polar_to_cart(PolarAfter(LastCall)))
    /\ (pc = "for" /\ it > 0) => p_delta = PolarAfter(it)

C11_Witness ==
    /\ pc = "wait_run"
    /\ failed # <<>>
    /\ failed[1] < i
    /\ lookfrom = add(origin, polar_to_cart(PolarAfter(i)))

\* C12: in every state from line 62 on, the radius and the azimuth of the
\* orbit state are those computed from start - origin; only the polar angle
\* moves.
C12_RadiusAzimuthUnchanged ==
    pc # "polar" =>
        /\ p_delta[1] = InitialPolar[1]
        /\ p_delta[3] = InitialPolar[3]

C12_Witness ==
    /\ pc = "done"
    /\ p_delta[1] = InitialPolar[1]
    /\ p_delta[3] = InitialPolar[3]
    /\ p_delta[2] # InitialPolar[2]

\* C13: at most one child process is alive at any moment, and only while the
\* script waits for it; and while a process of frame i is alive, render_image
\* has been called for 0..i in order and every earlier frame is finished, its
\* .ppm removed.
C13_OneFrameAtATime ==
    /\ Len(running) <= 1
    /\ running # <<>> <=> pc \in {"wait_run", "wait_convert"}
    /\ running # <<>> =>
          /\ calls = [n \in 1..(i + 1) |-> n - 1]
          /\ \A j \in 0..(i - 1) : ~Exists(ppm(FrameName(j)))
          /\ pc = "wait_run" => running[1].out = ppm(FrameName(i))

C13_Witness ==
    /\ pc = "wait_run"
    /\ i = 2
    /\ Len(running) = 1
    /\ Exists(png(FrameName(1)))
    /\ ~Exists(ppm(FrameName(1)))

\* C14: from the pose computation of frame i until its state update, the
\* displacement in use is the Cartesian form of the orbit state as the update
\* of frame i - 1 left it (the state of line 62 for frame 0): the state has
\* been stepped once per earlier call and not yet for frame i.
C14_PoseFromPrecedingState ==
    /\ (pc \in {"print", "call", "advance"} \/ InRender)
          => c_delta = polar_to_cart(p_delta)
    /\ (pc \in {"pose", "print", "call", "advance"} \/ InRender)
          => p_delta = PolarAfter(i)
    /\ pc = "wait_run" => Len(calls) = i + 1

C14_Witness ==
    /\ pc = "wait_run"
    /\ i = 1
    /\ p_delta = PolarAfter(1)
    /\ c_delta = polar_to_cart(p_delta)
    /\ c_delta # polar_to_cart(InitialPolar)

\* the path is one of the two files named frame{i:04} for the index k
FileOfFrame(path, k) ==
    /\ path[1] = "_movie/frame"
    /\ path[2] = PadLeft(Digits(k), 4)
    /\ path[3] \in {".ppm", ".png"}

\* the path is created, deleted or rewritten by the step
Touched(path) ==
    \/ path \in DOMAIN fs /\ path \notin DOMAIN fs'
    \/ path \notin DOMAIN fs /\ path \in DOMAIN fs'
    \/ path \in DOMAIN fs /\ path \in DOMAIN fs' /\ fs[path] # fs'[path]

\* C15: every step that creates, writes or deletes a file does so during
\* frame i and to a file named frame{i:04}.ppm or frame{i:04}.png; the files
\* of every other index are as they were.
C15_OnlyOwnFiles ==
    [][\A path \in DOMAIN fs \cup DOMAIN fs' :
          Touched(path) => i' = i /\ FileOfFrame(path, i)]_vars

C15_Witness ==
    /\ pc = "advance"
    /\ i = 1
    /\ Exists(png(FrameName(0)))
    /\ Exists(png(FrameName(1)))
    /\ ~Exists(ppm(FrameName(1)))
    /\ failed = <<>>

\* the --lookat argument of the running raytracer
LookatArg == running[1].argv[7][2]

\* C16: the raytracer of every frame is given origin as --lookat and origin
\* plus the Cartesian form of the current orbit state as --lookfrom; the
\* lookat parameter of render_image is origin in every call.
C16_LookatFixedLookfromOrbit ==
    /\ InRender => lookat = origin
    /\ pc = "wait_run" =>
          /\ LookatArg = ReprTuple(origin)
          /\ LookfromArg = ReprTuple(add(origin, polar_to_cart(p_delta)))

C16_Witness ==
    /\ pc = "wait_run"
    /\ i = 3
    /\ LookatArg = ReprTuple(origin)
    /\ LookfromArg = ReprTuple(add(origin, polar_to_cart(PolarAfter(3))))

\* the script has ended: the loop is over, or an exception has left it
Terminal == pc \in {"done", "raised"}

\* C17: while the script waits for the raytracer, the only step there is is
\* the raytracer's exit: nothing else moves, no conversion, no later frame, no
\* timeout; and when every process waited for exits, the script ends, having
\* called render_image at most nframes times.
C17_NoTimeoutAndTermination ==
    /\ [][pc = "wait_run" =>
             /\ pc' = "close"
             /\ running' = <<>>
             /\ result' # <<>>
             /\ UNCHANGED <<it, i, p_delta, c_delta, f, conv, stdout, exc, calls>>]_vars
    /\ <>Terminal
    /\ [](Len(calls) <= nframes)

C17_Witness ==
    /\ pc = "done"
    /\ failed = <<>>
    /\ running = <<>>
    /\ Len(stdout) = nframes

\* the steps of render_image that follow open(), in the order of lines 20-33
AfterOpen == {"run", "wait_run", "close", "convert", "wait_convert", "remove"}

\* C18: inside render_image the steps come in the order open, raytracer,
\* close, convert, remove: the raytracer runs only with the handle open and
\* nothing done yet; the handle is closed only after the raytracer returned;
\* convert is started and runs only with the handle closed and the raytracer
\* returned; the .ppm is there from open() until convert has returned, and is
\* gone only after that.
C18_FixedOrder ==
    /\ [](/\ pc \in {"run", "wait_run"} => f = "open" /\ result = <<>> /\ conv = <<>>
          /\ pc = "wait_run" <=> (running # <<>> /\ running[1].argv = RaytracerArgv)
          /\ pc = "close" =>
                f = "open" /\ result # <<>> /\ conv = <<>> /\ running = <<>>
          /\ pc \in {"convert", "wait_convert"} =>
                f = "closed" /\ result # <<>> /\ conv = <<>>
          /\ pc = "wait_convert" <=>
                (running # <<>> /\ running[1].argv[1] = "convert")
          /\ pc = "remove" => f = "closed" /\ conv # <<>> /\ running = <<>>
          /\ pc \in AfterOpen => Exists(ppm(fn))
          /\ (pc = "advance" /\ ~Exists(ppm(fn))) => conv # <<>>)
    /\ [][(Exists(ppm(fn)) /\ ~Exists(ppm(fn))') =>
             (pc = "remove" /\ conv # <<>> /\ running = <<>>)]_vars

C18_Witness ==
    /\ pc = "advance"
    /\ ~Exists(ppm(fn))
    /\ f = "closed"
    /\ result # <<>>
    /\ conv # <<>>
====
